---- MODULE Spec2Model ----
(***************************************************************************)
(* Model of the scheduled-task engine of src/scheduler/InternalScheduler.ts *)
(* and of the retry helper src/util/core/Retry.ts.                          *)
(*                                                                          *)
(* Strings are sequences of one-character strings, so that parsing,         *)
(* padding and splitting are computed as the code computes them.  An        *)
(* optional configuration field is a record field that may be absent.       *)
(***************************************************************************)
EXTENDS Integers, Sequences, FiniteSets, TLC

\* ------------------------------------------------------------------ bounds
\* Concurrent invocations of runScheduledTask that may be in flight.
MaxProcs == 2
\* Cron jobs that may be scheduled (live) at the same time.
MaxJobs == 2
\* The wall clock is observed at instants 0..MaxNow.
MaxNow == 1

\* Math.random() is observed at the values 0/RandSteps .. (RandSteps-1)/RandSteps.
RandSteps == 4
\* The clock runs over the days 0..MaxDay.
MaxDay == 1

\* --------------------------------------------------------- program constants
DefaultMaxAttempts == 3
DefaultBaseDelay == 1000
DefaultMaxDelay == 30000
DefaultMaxRestarts == 1
DefaultBackoffBaseMs == 2000
DefaultMinutesBefore == 20
DefaultMinutesAfter == 30
DefaultHour == 9
MinutesInDay == 1440
MinutesInHour == 60

\* ------------------------------------------------------------------ strings
Digits == <<"0", "1", "2", "3", "4", "5", "6", "7", "8", "9">>

IsDigit(c) == \E i \in 1..10 : Digits[i] = c

DigitVal(c) == (CHOOSE i \in 1..10 : Digits[i] = c) - 1

IsDigits(s) == Len(s) > 0 /\ \A i \in 1..Len(s) : IsDigit(s[i])

\* parseInt(s, 10) of a string of decimal digits
RECURSIVE parseInt(_)
parseInt(s) ==
    IF Len(s) = 0 THEN 0
    ELSE 10 * parseInt(SubSeq(s, 1, Len(s) - 1)) + DigitVal(s[Len(s)])

\* String(n) / template interpolation of a non-negative integer
RECURSIVE numberToString(_)
numberToString(n) ==
    IF n < 10 THEN <<Digits[n + 1]>>
    ELSE numberToString(n \div 10) \o <<Digits[(n % 10) + 1]>>

\* padStart2 that leaves the string as it is
padStart2Keep(s) == s

\* s.padStart(2, '0')
padStart2(s) == IF Len(s) = 0 THEN <<"0", "0">>
                ELSE IF Len(s) = 1 THEN <<"0">> \o s
                ELSE s

\* s.trim()
RECURSIVE trimStart(_)
trimStart(s) == IF Len(s) > 0 /\ s[1] = " " THEN trimStart(Tail(s)) ELSE s

RECURSIVE trimEnd(_)
trimEnd(s) == IF Len(s) > 0 /\ s[Len(s)] = " "
              THEN trimEnd(SubSeq(s, 1, Len(s) - 1)) ELSE s

trim(s) == trimEnd(trimStart(s))

\* s.split(sep): the pieces between the occurrences of the character sep
RECURSIVE splitFrom(_, _, _)
splitFrom(s, sep, cur) ==
    IF Len(s) = 0 THEN <<cur>>
    ELSE IF s[1] = sep THEN <<cur>> \o splitFrom(Tail(s), sep, <<>>)
    ELSE splitFrom(Tail(s), sep, Append(cur, s[1]))

split(s, sep) == splitFrom(s, sep, <<>>)

\* The value null / undefined of a string-typed field.
Null == <<"null">>

\* JavaScript truthiness of an optional string: neither null nor empty.
Truthy(s) == s # Null /\ s # <<>>

Has(r, f) == f \in DOMAIN r

\* -------------------------------------------------------- schedule resolution
Abs(x) == IF x < 0 THEN 0 - x ELSE x

\* scheduleConfig.jitter, or an empty record when the field is absent
jitterOf(scheduleConfig) ==
    IF Has(scheduleConfig, "jitter") THEN scheduleConfig.jitter ELSE <<>>

jitterEnabled(jitter) == Has(jitter, "enabled") /\ jitter.enabled = TRUE

jitterBefore(jitter) ==
    IF Has(jitter, "minMinutesBefore") THEN jitter.minMinutesBefore
    ELSE DefaultMinutesBefore

jitterAfter(jitter) ==
    IF Has(jitter, "maxMinutesAfter") THEN jitter.maxMinutesAfter
    ELSE DefaultMinutesAfter

\* whether applyJitter returns before drawing a random offset
jitterSkipped(jitter) ==
    ~jitterEnabled(jitter) \/ (jitterBefore(jitter) = 0 /\ jitterAfter(jitter) = 0)

\* getRandomInt with Math.round in place of Math.floor: one value too many
getRandomIntRounded(minInclusive, maxInclusive) == minInclusive..(maxInclusive + 1)

\* The values getRandomInt(minInclusive, maxInclusive) can return:
\* floor(random * (max - min + 1)) + min for random in [0, 1).
getRandomInt(minInclusive, maxInclusive) == minInclusive..maxInclusive

\* The random draws one call of applyJitter can make (0 stands for no draw).
jitterDraws(jitter) ==
    IF jitterSkipped(jitter) THEN {0}
    ELSE getRandomInt(0 - Abs(jitterBefore(jitter)), Abs(jitterAfter(jitter)))

\* wrapMinutes with each loop run at most once
wrapMinutesOnce(totalMinutes) ==
    IF totalMinutes < 0 THEN totalMinutes + MinutesInDay
    ELSE IF totalMinutes >= MinutesInDay THEN totalMinutes - MinutesInDay
    ELSE totalMinutes

RECURSIVE wrapMinutes(_)
wrapMinutes(totalMinutes) ==
    IF totalMinutes < 0 THEN wrapMinutes(totalMinutes + MinutesInDay)
    ELSE IF totalMinutes >= MinutesInDay THEN wrapMinutes(totalMinutes - MinutesInDay)
    ELSE totalMinutes

\* applyJitter, with the value drawn by getRandomInt passed as offset
applyJitter(hour, minute, jitter, offset) ==
    IF jitterSkipped(jitter)
    THEN [hour |-> hour, minute |-> minute, offsetMinutes |-> 0]
    ELSE LET totalMinutes == wrapMinutes(hour * MinutesInHour + minute + offset)
         IN  [hour |-> totalMinutes \div MinutesInHour,
              minute |-> totalMinutes % MinutesInHour,
              offsetMinutes |-> offset]

\* dailyCron with the hour written first
dailyCronHourFirst(minute, hour) ==
    numberToString(hour) \o <<" ">> \o numberToString(minute)
        \o <<" ", "*", " ", "*", " ", "*">>

\* `${minute} ${hour} * * *`
dailyCron(minute, hour) ==
    numberToString(minute) \o <<" ">> \o numberToString(hour)
        \o <<" ", "*", " ", "*", " ", "*">>

\* /^(\d{1,2}):(\d{2})$/.exec(s): the two groups, or <<>> when s does not match
timeMatch(s) ==
    IF /\ Len(s) \in {4, 5}
       /\ s[Len(s) - 2] = ":"
       /\ IsDigits(SubSeq(s, 1, Len(s) - 3))
       /\ IsDigits(SubSeq(s, Len(s) - 1, Len(s)))
    THEN <<SubSeq(s, 1, Len(s) - 3), SubSeq(s, Len(s) - 1, Len(s))>>
    ELSE <<>>

extractTimeFromCron(cronExpr) ==
    LET parts == split(cronExpr, " ")
    IN  IF /\ Len(parts) >= 2
           /\ parts[1] # <<>> /\ parts[2] # <<>>
           /\ parts[1] # <<"*">> /\ parts[2] # <<"*">>
        THEN padStart2(parts[2]) \o <<":">> \o padStart2(parts[1])
        ELSE cronExpr

scheduleTime(scheduleConfig) ==
    IF Has(scheduleConfig, "time") THEN scheduleConfig.time ELSE Null

legacySchedule(scheduleConfig) ==
    IF Has(scheduleConfig, "cron") /\ Has(scheduleConfig.cron, "schedule")
    THEN scheduleConfig.cron.schedule ELSE Null

\* buildSchedule that falls back to the legacy expression when the time is
\* malformed
buildScheduleFallsBack(scheduleConfig, offset) ==
    LET m == IF Truthy(scheduleTime(scheduleConfig))
             THEN timeMatch(trim(scheduleConfig.time)) ELSE <<>>
        hours == parseInt(m[1])
        minutes == parseInt(m[2])
    IN  IF m # <<>> /\ hours >= 0 /\ hours <= 23 /\ minutes >= 0 /\ minutes <= 59
        THEN LET jitter == applyJitter(hours, minutes, jitterOf(scheduleConfig), offset)
             IN  [cronExpr |-> dailyCron(jitter.minute, jitter.hour),
                  displayTime |-> padStart2(numberToString(hours)) \o <<":">>
                                      \o padStart2(numberToString(minutes)),
                  jitterApplied |-> jitter.offsetMinutes]
        ELSE IF Truthy(legacySchedule(scheduleConfig))
        THEN [cronExpr |-> scheduleConfig.cron.schedule,
              displayTime |-> extractTimeFromCron(scheduleConfig.cron.schedule),
              jitterApplied |-> 0]
        ELSE IF Truthy(scheduleTime(scheduleConfig))
        THEN [cronExpr |-> Null, displayTime |-> <<>>, jitterApplied |-> 0]
        ELSE LET jitter == applyJitter(DefaultHour, 0, jitterOf(scheduleConfig), offset)
             IN  [cronExpr |-> dailyCron(jitter.minute, jitter.hour),
                  displayTime |-> <<"0", "9", ":", "0", "0">>,
                  jitterApplied |-> jitter.offsetMinutes]

\* buildSchedule that looks at the legacy expression before the time
buildScheduleLegacyFirst(scheduleConfig, offset) ==
    IF Truthy(legacySchedule(scheduleConfig))
    THEN [cronExpr |-> scheduleConfig.cron.schedule,
          displayTime |-> extractTimeFromCron(scheduleConfig.cron.schedule),
          jitterApplied |-> 0]
    ELSE IF Truthy(scheduleTime(scheduleConfig))
    THEN LET m == timeMatch(trim(scheduleConfig.time))
             hours == parseInt(m[1])
             minutes == parseInt(m[2])
         IN  IF m # <<>> /\ hours >= 0 /\ hours <= 23 /\ minutes >= 0 /\ minutes <= 59
             THEN LET jitter == applyJitter(hours, minutes, jitterOf(scheduleConfig), offset)
                  IN  [cronExpr |-> dailyCron(jitter.minute, jitter.hour),
                       displayTime |-> padStart2(numberToString(hours)) \o <<":">>
                                           \o padStart2(numberToString(minutes)),
                       jitterApplied |-> jitter.offsetMinutes]
             ELSE [cronExpr |-> Null, displayTime |-> <<>>, jitterApplied |-> 0]
    ELSE LET jitter == applyJitter(DefaultHour, 0, jitterOf(scheduleConfig), offset)
         IN  [cronExpr |-> dailyCron(jitter.minute, jitter.hour),
              displayTime |-> <<"0", "9", ":", "0", "0">>,
              jitterApplied |-> jitter.offsetMinutes]

\* buildSchedule, with the value drawn inside applyJitter passed as offset
buildSchedule(scheduleConfig, offset) ==
    IF Truthy(scheduleTime(scheduleConfig))
    THEN LET m == timeMatch(trim(scheduleConfig.time))
             hours == parseInt(m[1])
             minutes == parseInt(m[2])
         IN  IF m # <<>> /\ hours >= 0 /\ hours <= 23 /\ minutes >= 0 /\ minutes <= 59
             THEN LET jitter == applyJitter(hours, minutes, jitterOf(scheduleConfig), offset)
                  IN  [cronExpr |-> dailyCron(jitter.minute, jitter.hour),
                       displayTime |-> padStart2(numberToString(hours)) \o <<":">>
                                           \o padStart2(numberToString(minutes)),
                       jitterApplied |-> jitter.offsetMinutes]
             ELSE [cronExpr |-> Null, displayTime |-> <<>>, jitterApplied |-> 0]
    ELSE IF Truthy(legacySchedule(scheduleConfig))
    THEN [cronExpr |-> scheduleConfig.cron.schedule,
          displayTime |-> extractTimeFromCron(scheduleConfig.cron.schedule),
          jitterApplied |-> 0]
    ELSE LET jitter == applyJitter(DefaultHour, 0, jitterOf(scheduleConfig), offset)
         IN  [cronExpr |-> dailyCron(jitter.minute, jitter.hour),
              displayTime |-> <<"0", "9", ":", "0", "0">>,
              jitterApplied |-> jitter.offsetMinutes]

\* The random draws one call of buildSchedule can make.
scheduleDraws(scheduleConfig) ==
    IF Truthy(scheduleTime(scheduleConfig)) \/ ~Truthy(legacySchedule(scheduleConfig))
    THEN jitterDraws(jitterOf(scheduleConfig))
    ELSE {0}

\* Whether the value v of the clock matches one field of a cron expression.
cronFieldMatches(field, v) ==
    LET items == split(field, ",")
    IN  \E i \in 1..Len(items) :
            \/ items[i] = <<"*">>
            \/ /\ Len(items[i]) >= 3 /\ items[i][1] = "*" /\ items[i][2] = "/"
               /\ IsDigits(SubSeq(items[i], 3, Len(items[i])))
               /\ parseInt(SubSeq(items[i], 3, Len(items[i]))) > 0
               /\ v % parseInt(SubSeq(items[i], 3, Len(items[i]))) = 0
            \/ IsDigits(items[i]) /\ parseInt(items[i]) = v

\* Whether a job created with cronExpr fires at the instant t, counted in minutes
\* from a local midnight.  The clock has no calendar, so only expressions that
\* run every day ("*" as day, month and weekday) are matched.
cronMatches(cronExpr, t) ==
    LET parts == split(cronExpr, " ")
        minuteOfDay == t % MinutesInDay
    IN  /\ Len(parts) = 5
        /\ cronFieldMatches(parts[1], minuteOfDay % MinutesInHour)
        /\ cronFieldMatches(parts[2], minuteOfDay \div MinutesInHour)
        /\ parts[3] = <<"*">> /\ parts[4] = <<"*">> /\ parts[5] = <<"*">>

\* One field of a cron expression as the cron library accepts it: a comma list
\* of "*", "*/n" (n > 0) or numbers within lo..hi.
validCronItem(item, lo, hi) ==
    \/ item = <<"*">>
    \/ /\ Len(item) >= 3 /\ item[1] = "*" /\ item[2] = "/"
       /\ IsDigits(SubSeq(item, 3, Len(item)))
       /\ parseInt(SubSeq(item, 3, Len(item))) > 0
    \/ IsDigits(item) /\ parseInt(item) >= lo /\ parseInt(item) <= hi

validCronField(field, lo, hi) ==
    LET items == split(field, ",")
    IN  \A i \in 1..Len(items) : validCronItem(items[i], lo, hi)

\* cron.validate(cronExpr): five fields minute, hour, day, month, weekday
cronValidate(cronExpr) ==
    LET parts == split(cronExpr, " ")
    IN  /\ Len(parts) = 5
        /\ validCronField(parts[1], 0, 59)
        /\ validCronField(parts[2], 0, 23)
        /\ validCronField(parts[3], 1, 31)
        /\ validCronField(parts[4], 1, 12)
        /\ validCronField(parts[5], 0, 7)

\* ---------------------------------------------------------------- configuration
T0900 == <<"0", "9", ":", "0", "0">>
T2359 == <<"2", "3", ":", "5", "9">>
T2400 == <<"2", "4", ":", "0", "0">>
T9c5 == <<"9", ":", "5">>
Cron0900 == <<"0", " ", "9", " ", "*", " ", "*", " ", "*">>
CronEvery30 == <<"*", "/", "3", "0", " ", "*", " ", "*", " ", "*", " ", "*">>
CronBad == <<"6", "1", " ", "9", " ", "*", " ", "*", " ", "*">>
Cron0921 == <<"0", " ", "9", ",", "2", "1", " ", "*", " ", "*", " ", "*">>

JitterOn == [enabled |-> TRUE, minMinutesBefore |-> 0, maxMinutesAfter |-> 1]
JitterOff == [enabled |-> FALSE]

\* config.scheduling values the engine is constructed with
SchedulingConfigs ==
    { [enabled |-> FALSE, time |-> T0900],
      [enabled |-> TRUE, time |-> T0900],
      [enabled |-> TRUE, time |-> T0900, jitter |-> JitterOff],
      [enabled |-> TRUE, time |-> T2359, jitter |-> JitterOn],
      [enabled |-> TRUE, time |-> T2400, cron |-> [schedule |-> Cron0900]],
      [enabled |-> TRUE, time |-> T9c5],
      [enabled |-> TRUE, time |-> <<>>, cron |-> [schedule |-> Cron0900]],
      [enabled |-> TRUE, cron |-> [schedule |-> CronEvery30], jitter |-> JitterOn],
      [enabled |-> TRUE, cron |-> [schedule |-> CronBad]],
      [enabled |-> TRUE, jitter |-> JitterOn] }

\* config.crashRecovery values the engine is constructed with
CrashRecoveryConfigs ==
    { <<>>, [maxRestarts |-> 0], [maxRestarts |-> 2], [maxRestarts |-> -1] }

\* Every scheduling value, with the default crash recovery or, where resolving
\* it draws a random offset, without retries; and every crash recovery value with
\* a time-based schedule and with a legacy one.
Configs ==
    { [scheduling |-> sc,
       crashRecovery |-> IF Cardinality(scheduleDraws(sc)) > 1
                         THEN [maxRestarts |-> 0] ELSE <<>>] : sc \in SchedulingConfigs }
    \cup
    { [scheduling |-> sc, crashRecovery |-> cr] :
        sc \in { [enabled |-> TRUE, time |-> T0900],
                 [enabled |-> TRUE, cron |-> [schedule |-> CronEvery30], jitter |-> JitterOn] },
        cr \in CrashRecoveryConfigs }

\* ------------------------------------------------------------------- the engine
VARIABLES
    config,             \* the Config given to the constructor
    cronJob,            \* this.cronJob: a job id, or NoJob for null
    isRunning,          \* this.isRunning
    lastRunTime,        \* this.lastRunTime: an instant, or NoDate for null
    lastCronExpression, \* this.lastCronExpression, or Null
    live,               \* the cron jobs that are scheduled and not stopped
    jobExpr,            \* the expression each cron job was created with
    now,                \* the wall clock
    pc,                 \* where each invocation of runScheduledTask stands
    attempts,           \* the local variable attempts of each invocation
    calls,              \* task callback invocations made by each invocation
    sleeps,             \* backoff sleeps completed by each invocation
    lastOutcome,        \* how the most recent invocation that returned ended
    startReturned,      \* what the most recent start() returned
    stopRequested,      \* "no", or how the last stop() since the last start() found
                        \* the engine: "idle", or "running" for a run in progress
    origin,             \* who called each invocation: "scheduled" (a cron job),
                        \* "manual" (triggerNow), or "none" for an idle one
    skippedCall,        \* who made the call that lastOutcome reports as skipped
    backoffs,           \* the backoff durations each invocation has awaited, in order
    due,                \* the cron jobs whose callback the cron library is about
                        \* to invoke at the current instant
    firedAt             \* the instant of the last firing by the clock that began a
                        \* run, or NoDate

\* One Retry object and one call of its run method.
VARIABLES
    policy,             \* this.policy, or NoPolicy before the constructor ran
    isRetryableGiven,   \* whether run was given the isRetryable predicate
    rpc,                \* where the call of run stands
    attempt,            \* the local variable attempt
    delay,              \* the local variable delay
    slept,              \* the durations slept so far, in order
    nominal,            \* the value of delay behind each of these sleeps
    fnCalls,            \* invocations of fn made so far
    lastErr             \* the last error caught: "none", "retryable" or "fatal"

\* One call of buildSchedule.
VARIABLES
    resolveInput,       \* the scheduleConfig it is given
    resolveDraw,        \* the value getRandomInt returned to it (0: none drawn)
    resolved            \* what it returned, or NotResolved before the call

\* One MobileRetryTracker object.
VARIABLES
    trackerArg,         \* the number given to the constructor as maxRetries
    trackerMaxRetries,  \* this.maxRetries
    trackerAttempts,    \* this.attempts
    registerReturned    \* what each call of registerFailure() returned, in order

engineVars == <<config, cronJob, isRunning, lastRunTime, lastCronExpression, live,
                jobExpr, now, pc, attempts, calls, sleeps, lastOutcome, startReturned,
                stopRequested, origin, skippedCall, backoffs, due, firedAt>>

retryVars == <<policy, isRetryableGiven, rpc, attempt, delay, slept, nominal, fnCalls,
               lastErr>>

resolverVars == <<resolveInput, resolveDraw, resolved>>

trackerVars == <<trackerArg, trackerMaxRetries, trackerAttempts, registerReturned>>

\* what the engine's actions leave alone
otherVars == <<retryVars, resolverVars, trackerVars>>

vars == <<engineVars, retryVars, resolverVars, trackerVars>>

Procs == 1..MaxProcs
JobIds == 1..MaxJobs
NoJob == 0
NoDate == -1

NoOutcome == [kind |-> "none", calls |-> 0, sleeps |-> 0, fails |-> 0]

\* !scheduleConfig?.enabled, negated
schedulingEnabled(cfg) ==
    Has(cfg, "scheduling") /\ Has(cfg.scheduling, "enabled")
        /\ cfg.scheduling.enabled = TRUE

\* this.config.crashRecovery?.maxRestarts ?? 1
maxRetriesOf(cfg) ==
    IF Has(cfg, "crashRecovery") /\ Has(cfg.crashRecovery, "maxRestarts")
    THEN cfg.crashRecovery.maxRestarts ELSE DefaultMaxRestarts

\* this.config.crashRecovery?.backoffBaseMs ?? 2000
backoffBaseMsOf(cfg) ==
    IF Has(cfg, "crashRecovery") /\ Has(cfg.crashRecovery, "backoffBaseMs")
    THEN cfg.crashRecovery.backoffBaseMs ELSE DefaultBackoffBaseMs

\* cron.schedule(cronExpr, ...): a new live job; the trigger state after it
cronSchedule(trigger, cronExpr) ==
    LET id == CHOOSE j \in JobIds \ trigger.live :
                  \A k \in JobIds \ trigger.live : j <= k
    IN  [trigger EXCEPT !.cronJob = id,
                        !.live = @ \cup {id},
                        !.jobExpr = [@ EXCEPT ![id] = cronExpr]]

\* job.stop(): the job fires no more
cronStop(trigger, job) ==
    [trigger EXCEPT !.live = @ \ {job},
                    !.jobExpr = [@ EXCEPT ![job] = Null]]

\* the engine's trigger fields and the cron library's jobs, as one record
Trigger == [cronJob |-> cronJob, live |-> live, jobExpr |-> jobExpr,
            lastCronExpression |-> lastCronExpression]

SetTrigger(t) ==
    /\ cronJob' = t.cronJob
    /\ live' = t.live
    /\ jobExpr' = t.jobExpr
    /\ lastCronExpression' = t.lastCronExpression

\* isActive()
isActive == cronJob # NoJob

\* No invocation of runScheduledTask is past the overlap check.
AllIdle == \A p \in Procs : pc[p] = "idle"

\* The engine as its constructor leaves it, for a configuration among cfgs.
EngineConstructed(cfgs) ==
    /\ config \in cfgs
    /\ cronJob = NoJob
    /\ isRunning = FALSE
    /\ lastRunTime = NoDate
    /\ lastCronExpression = Null
    /\ live = {}
    /\ jobExpr = [j \in JobIds |-> Null]
    /\ now = 0
    /\ pc = [p \in Procs |-> "idle"]
    /\ attempts = [p \in Procs |-> 0]
    /\ calls = [p \in Procs |-> 0]
    /\ sleeps = [p \in Procs |-> 0]
    /\ lastOutcome = NoOutcome
    /\ startReturned = "none"
    /\ stopRequested = "no"
    /\ origin = [p \in Procs |-> "none"]
    /\ skippedCall = "none"
    /\ backoffs = [p \in Procs |-> <<>>]
    /\ due = {}
    /\ firedAt = NoDate

NoPolicy == [constructed |-> FALSE]

\* No Retry object exists.
RetryAbsent ==
    /\ policy = NoPolicy
    /\ isRetryableGiven = FALSE
    /\ rpc = "idle"
    /\ attempt = 0
    /\ delay = 0
    /\ slept = <<>>
    /\ nominal = <<>>
    /\ fnCalls = 0
    /\ lastErr = "none"

NotResolved == [cronExpr |-> Null, displayTime |-> Null, jitterApplied |-> 0]

\* buildSchedule is not being observed.
ResolverAbsent ==
    /\ resolveInput = <<>>
    /\ resolveDraw = 0
    /\ resolved = NotResolved

\* A JavaScript number: NaN, an infinity, or the finite value num/den with den > 0.
Number(kind, n, d) == [kind |-> kind, num |-> n, den |-> d]

\* No MobileRetryTracker exists.
TrackerAbsent ==
    /\ trackerArg = Number("finite", 0, 1)
    /\ trackerMaxRetries = 0
    /\ trackerAttempts = 0
    /\ registerReturned = <<>>

\* Nothing but the engine exists.
OthersAbsent == RetryAbsent /\ ResolverAbsent /\ TrackerAbsent

Init == EngineConstructed(Configs) /\ OthersAbsent

\* start() that schedules the job and does not keep its handle
startDropsHandle(trigger, cfg, offset) ==
    IF ~schedulingEnabled(cfg) THEN [ok |-> FALSE, trigger |-> trigger]
    ELSE LET b == buildSchedule(cfg.scheduling, offset)
         IN  IF ~Truthy(b.cronExpr) THEN [ok |-> FALSE, trigger |-> trigger]
             ELSE IF ~cronValidate(b.cronExpr) THEN [ok |-> FALSE, trigger |-> trigger]
             ELSE [ok |-> TRUE,
                   trigger |-> [cronSchedule(trigger, b.cronExpr)
                                   EXCEPT !.cronJob = trigger.cronJob,
                                          !.lastCronExpression = b.cronExpr]]

\* start() that records the expression before validating it
startRecordsFirst(trigger, cfg, offset) ==
    IF ~schedulingEnabled(cfg) THEN [ok |-> FALSE, trigger |-> trigger]
    ELSE LET b == buildSchedule(cfg.scheduling, offset)
             recorded == [trigger EXCEPT !.lastCronExpression = b.cronExpr]
         IN  IF ~Truthy(b.cronExpr) THEN [ok |-> FALSE, trigger |-> trigger]
             ELSE IF ~cronValidate(b.cronExpr) THEN [ok |-> FALSE, trigger |-> recorded]
             ELSE [ok |-> TRUE, trigger |-> cronSchedule(recorded, b.cronExpr)]

\* start(): what it returns and the trigger state it leaves
start(trigger, cfg, offset) ==
    IF ~schedulingEnabled(cfg) THEN [ok |-> FALSE, trigger |-> trigger]
    ELSE LET b == buildSchedule(cfg.scheduling, offset)
         IN  IF ~Truthy(b.cronExpr) THEN [ok |-> FALSE, trigger |-> trigger]
             ELSE IF ~cronValidate(b.cronExpr) THEN [ok |-> FALSE, trigger |-> trigger]
             ELSE [ok |-> TRUE,
                   trigger |-> [cronSchedule(trigger, b.cronExpr)
                                   EXCEPT !.lastCronExpression = b.cronExpr]]

\* The random draws one call of start() can make.
startDraws(cfg) ==
    IF schedulingEnabled(cfg) THEN scheduleDraws(cfg.scheduling) ELSE {0}

\* stop() that stops the job and keeps the handle
stopKeepsHandle(trigger) ==
    IF trigger.cronJob # NoJob THEN cronStop(trigger, trigger.cronJob) ELSE trigger

\* stop(): the trigger state it leaves
stop(trigger) ==
    IF trigger.cronJob # NoJob
    THEN [cronStop(trigger, trigger.cronJob) EXCEPT !.cronJob = NoJob]
    ELSE trigger

\* rescheduleSkipped without the test of scheduleConfig.time
rescheduleSkippedOnlyDisabled(cfg) == ~schedulingEnabled(cfg)

\* whether rescheduleWithJitter returns at its first check
rescheduleSkipped(cfg) ==
    ~schedulingEnabled(cfg) \/ ~Truthy(scheduleTime(cfg.scheduling))

\* rescheduleWithJitter() that stops the armed job and arms none in its place
rescheduleDisarms(trigger, cfg, offset) ==
    IF rescheduleSkipped(cfg) THEN trigger ELSE stop(trigger)

\* rescheduleWithJitter() without the assignment of lastCronExpression
rescheduleForgetsExpression(trigger, cfg, offset) ==
    IF rescheduleSkipped(cfg) THEN trigger
    ELSE LET b == buildSchedule(cfg.scheduling, offset)
         IN  IF ~Truthy(b.cronExpr) \/ ~cronValidate(b.cronExpr) THEN trigger
             ELSE LET stopped == IF trigger.cronJob # NoJob
                                 THEN cronStop(trigger, trigger.cronJob)
                                 ELSE trigger
                  IN  cronSchedule(stopped, b.cronExpr)

\* rescheduleWithJitter(): the trigger state it leaves
rescheduleWithJitter(trigger, cfg, offset) ==
    IF rescheduleSkipped(cfg) THEN trigger
    ELSE LET b == buildSchedule(cfg.scheduling, offset)
         IN  IF ~Truthy(b.cronExpr) \/ ~cronValidate(b.cronExpr) THEN trigger
             ELSE LET stopped == IF trigger.cronJob # NoJob
                                 THEN cronStop(trigger, trigger.cronJob)
                                 ELSE trigger
                  IN  [cronSchedule(stopped, b.cronExpr)
                          EXCEPT !.lastCronExpression = b.cronExpr]

\* The random draws one call of rescheduleWithJitter can make.
rescheduleDraws(cfg) ==
    IF rescheduleSkipped(cfg) THEN {0} ELSE scheduleDraws(cfg.scheduling)

\* The leading decimal digits of s, which parseInt(s, 10) converts; none: NaN.
RECURSIVE digitPrefix(_)
digitPrefix(s) ==
    IF Len(s) > 0 /\ IsDigit(s[1]) THEN <<s[1]>> \o digitPrefix(Tail(s)) ELSE <<>>

\* date.toLocaleString(): the day and the time of day of the instant t
toLocaleString(t) ==
    numberToString(t \div MinutesInDay) \o <<",", " ">>
        \o padStart2(numberToString((t % MinutesInDay) \div MinutesInHour)) \o <<":">>
        \o padStart2(numberToString(t % MinutesInHour))

\* getNextRunTime() called at the instant t; offset is the value drawn if it has
\* to resolve the schedule itself
getNextRunTime(trigger, cfg, t, offset) ==
    IF trigger.cronJob = NoJob THEN [kind |-> "unknown"]
    ELSE LET sc == IF Has(cfg, "scheduling") THEN cfg.scheduling ELSE <<>>
             built == IF Truthy(scheduleTime(sc))
                      THEN buildSchedule(sc, offset).cronExpr ELSE Null
             cronSchedule0 ==
                 IF trigger.lastCronExpression # Null THEN trigger.lastCronExpression
                 ELSE IF built # Null THEN built
                 ELSE IF legacySchedule(sc) # Null THEN legacySchedule(sc)
                 ELSE Cron0900
             parts == split(cronSchedule0, " ")
         IN  IF Len(parts) # 5 THEN [kind |-> "invalid schedule format"]
             ELSE IF \/ parts[1] = <<>> \/ parts[2] = <<>>
                     \/ parts[1] = <<"*">> \/ parts[2] = <<"*">>
             THEN [kind |-> "varies (see schedule configuration)"]
             ELSE IF digitPrefix(parts[2]) = <<>> \/ digitPrefix(parts[1]) = <<>>
             THEN [kind |-> "complex schedule"]
             ELSE LET targetHour == parseInt(digitPrefix(parts[2]))
                      targetMinute == parseInt(digitPrefix(parts[1]))
                      next == (t \div MinutesInDay) * MinutesInDay
                                  + targetHour * MinutesInHour + targetMinute
                  IN  [kind |-> "time",
                       at |-> toLocaleString(IF next <= t THEN next + MinutesInDay
                                             ELSE next)]

\* getStatus()
getStatus(offset) ==
    [active |-> isActive,
     isRunning |-> isRunning,
     lastRun |-> IF lastRunTime # NoDate THEN toLocaleString(lastRunTime) ELSE Null,
     nextRun |-> getNextRunTime(Trigger, config, now, offset)]

\* overlapSkip without the check: every call proceeds
overlapSkipNever(running) == FALSE

\* the overlap check at the head of runScheduledTask
overlapSkip(running) == running

\* loopContinues with the comparison off by one
loopContinuesStrict(a, maxRetries) == a < maxRetries

\* while (attempts <= maxRetries)
loopContinues(a, maxRetries) == a <= maxRetries

\* retryAfterFailure with the comparison inverted: the sleep is never taken
retryAfterFailureInverted(a, maxRetries) == a > maxRetries

\* if (attempts <= maxRetries) in the catch block: sleep and try again
retryAfterFailure(a, maxRetries) == a <= maxRetries

\* runningDuringAttempt without the assignment: the flag is never set
runningDuringAttemptUnset == FALSE

\* the value an attempt gives isRunning when it starts
runningDuringAttempt == TRUE

\* runningAfterAttempt without the finally block: the flag stays set
runningAfterAttemptKept == TRUE

\* the value the finally block gives isRunning
runningAfterAttempt == FALSE

\* attemptsAfterFailure without the increment: the failure is not counted
attemptsAfterFailureUncounted(a) == a

\* attempts++ in the catch block: the value of attempts after a caught rejection
attemptsAfterFailure(a) == a + 1

\* (this.config.crashRecovery?.backoffBaseMs ?? 2000) * attempts
backoffFor(cfg, a) == backoffBaseMsOf(cfg) * a

\* The head of the retry loop, reached with attempts = a and isRunning = running:
\* either the next attempt starts, or the loop is left, the schedule is re-armed
\* and the invocation returns without a success.
LoopHead(p, a, running, nsleeps) ==
    IF loopContinues(a, maxRetriesOf(config))
    THEN /\ isRunning' = runningDuringAttempt
         /\ lastRunTime' = now
         /\ pc' = [pc EXCEPT ![p] = "task"]
         /\ attempts' = [attempts EXCEPT ![p] = a]
         /\ calls' = [calls EXCEPT ![p] = @ + 1]
         /\ sleeps' = [sleeps EXCEPT ![p] = nsleeps]
         /\ UNCHANGED <<cronJob, live, jobExpr, lastCronExpression, lastOutcome,
                        backoffs>>
    ELSE /\ isRunning' = running
         /\ \E offset \in rescheduleDraws(config) :
                SetTrigger(rescheduleWithJitter(Trigger, config, offset))
         /\ pc' = [pc EXCEPT ![p] = "idle"]
         /\ attempts' = [attempts EXCEPT ![p] = 0]
         /\ calls' = [calls EXCEPT ![p] = 0]
         /\ sleeps' = [sleeps EXCEPT ![p] = 0]
         /\ backoffs' = [backoffs EXCEPT ![p] = <<>>]
         /\ lastOutcome' = [kind |-> "failed", calls |-> calls[p],
                            sleeps |-> nsleeps, fails |-> a]
         /\ UNCHANGED lastRunTime

\* runScheduledTask() entered by the idle invocation p, up to its first await
runScheduledTask(p) ==
    /\ pc[p] = "idle"
    /\ IF overlapSkip(isRunning)
       THEN /\ lastOutcome' = [NoOutcome EXCEPT !.kind = "skipped"]
            /\ UNCHANGED <<cronJob, isRunning, lastRunTime, lastCronExpression, live,
                           jobExpr, pc, attempts, calls, sleeps, backoffs>>
       ELSE LoopHead(p, 0, isRunning, 0)
    /\ UNCHANGED <<config, now, startReturned, stopRequested>>
    /\ UNCHANGED otherVars

\* The invocation that a new call of runScheduledTask becomes: invocations are
\* interchangeable, so the idle one of least index is taken.
NewProc(p) == pc[p] = "idle" /\ \A q \in Procs : pc[q] = "idle" => p <= q

\* Who called: caller has just called runScheduledTask as invocation p.
Called(p, caller) ==
    /\ origin' = [origin EXCEPT ![p] = IF pc'[p] # "idle" THEN caller ELSE "none"]
    /\ skippedCall' = IF overlapSkip(isRunning) THEN caller
                      ELSE IF lastOutcome'.kind = "skipped" THEN skippedCall
                      ELSE "none"

\* Who called: invocation p has just taken a step that may have ended it.
Resumed(p) ==
    /\ origin' = [origin EXCEPT ![p] = IF pc'[p] = "idle" THEN "none" ELSE @]
    /\ skippedCall' = IF lastOutcome'.kind = "skipped" THEN skippedCall ELSE "none"

\* the cron library fires the live job j: the callback given to cron.schedule
Fire(j) ==
    /\ j \in live
    /\ \E p \in Procs : NewProc(p) /\ runScheduledTask(p) /\ Called(p, "scheduled")
    /\ UNCHANGED <<due, firedAt>>

\* triggerNow()
TriggerNow ==
    /\ \E p \in Procs : NewProc(p) /\ runScheduledTask(p) /\ Called(p, "manual")
    /\ UNCHANGED <<due, firedAt>>

\* await this.taskCallback() resolves: re-arm, return, finally
TaskSucceed(p) ==
    /\ pc[p] = "task"
    /\ \E offset \in rescheduleDraws(config) :
           SetTrigger(rescheduleWithJitter(Trigger, config, offset))
    /\ isRunning' = runningAfterAttempt
    /\ pc' = [pc EXCEPT ![p] = "idle"]
    /\ attempts' = [attempts EXCEPT ![p] = 0]
    /\ calls' = [calls EXCEPT ![p] = 0]
    /\ sleeps' = [sleeps EXCEPT ![p] = 0]
    /\ backoffs' = [backoffs EXCEPT ![p] = <<>>]
    /\ lastOutcome' = [kind |-> "succeeded", calls |-> calls[p],
                       sleeps |-> sleeps[p], fails |-> attempts[p]]
    /\ Resumed(p)
    /\ UNCHANGED <<config, lastRunTime, now, startReturned, stopRequested, due, firedAt>>
    /\ UNCHANGED otherVars

\* await this.taskCallback() rejects: catch, then either the backoff sleep
\* starts, or finally runs and control is back at the loop head
TaskFail(p) ==
    /\ pc[p] = "task"
    /\ LET a == attemptsAfterFailure(attempts[p])
       IN  IF retryAfterFailure(a, maxRetriesOf(config))
           THEN /\ pc' = [pc EXCEPT ![p] = "backoff"]
                /\ attempts' = [attempts EXCEPT ![p] = a]
                /\ backoffs' = [backoffs EXCEPT ![p] = Append(@, backoffFor(config, a))]
                /\ UNCHANGED <<cronJob, isRunning, lastRunTime, lastCronExpression,
                               live, jobExpr, calls, sleeps, lastOutcome>>
           ELSE LoopHead(p, a, runningAfterAttempt, sleeps[p])
    /\ Resumed(p)
    /\ UNCHANGED <<config, now, startReturned, stopRequested, due, firedAt>>
    /\ UNCHANGED otherVars

\* the backoff sleep ends: finally runs and control is back at the loop head
BackoffDone(p) ==
    /\ pc[p] = "backoff"
    /\ LoopHead(p, attempts[p], runningAfterAttempt, sleeps[p] + 1)
    /\ Resumed(p)
    /\ UNCHANGED <<config, now, startReturned, stopRequested, due, firedAt>>
    /\ UNCHANGED otherVars

\* start() is called
Start ==
    /\ Cardinality(live) < MaxJobs
    /\ \E offset \in startDraws(config) :
           LET r == start(Trigger, config, offset)
           IN  /\ SetTrigger(r.trigger)
               /\ startReturned' = IF r.ok THEN "true" ELSE "false"
    /\ stopRequested' = "no"
    /\ UNCHANGED <<config, isRunning, lastRunTime, now, pc, attempts, calls, sleeps,
                   lastOutcome, origin, skippedCall, backoffs, due, firedAt>>
    /\ UNCHANGED otherVars

\* stop() is called
Stop ==
    /\ SetTrigger(stop(Trigger))
    /\ stopRequested' = IF AllIdle THEN "idle" ELSE "running"
    /\ UNCHANGED <<config, isRunning, lastRunTime, now, pc, attempts, calls, sleeps,
                   lastOutcome, startReturned, origin, skippedCall, backoffs, due, firedAt>>
    /\ UNCHANGED otherVars

\* time passes
Tick ==
    /\ now < MaxNow
    /\ now' = now + 1
    /\ UNCHANGED <<config, cronJob, isRunning, lastRunTime, lastCronExpression, live,
                   jobExpr, pc, attempts, calls, sleeps, lastOutcome, startReturned,
                   stopRequested, origin, skippedCall, backoffs, due, firedAt>>
    /\ UNCHANGED otherVars

Next ==
    \/ Start
    \/ Stop
    \/ TriggerNow
    \/ \E j \in JobIds : Fire(j)
    \/ \E p \in Procs : TaskSucceed(p)
    \/ \E p \in Procs : TaskFail(p)
    \/ \E p \in Procs : BackoffDone(p)
    \/ Tick

Spec == Init /\ [][Next]_vars

\* --------------------------------------------------------- the engine on a clock
\* The engine with the cron library firing its jobs at the instants their
\* expressions name, day after day; start() is called once and triggerNow() never.
JitterClock == [enabled |-> TRUE, minMinutesBefore |-> 1, maxMinutesAfter |-> 1]

ClockConfigs ==
    { [scheduling |-> sc, crashRecovery |-> <<>>] :
        sc \in { [enabled |-> TRUE, time |-> T0900, jitter |-> JitterClock],
                 [enabled |-> TRUE, time |-> T0900],
                 [enabled |-> TRUE, cron |-> [schedule |-> Cron0900]],
                 [enabled |-> TRUE, cron |-> [schedule |-> Cron0921]] } }

\* The instants the clock is observed at: around 09:00 of each day.
ClockInstants ==
    { d * MinutesInDay + DefaultHour * MinutesInHour + m : d \in 0..MaxDay, m \in -2..2 }

\* The clock reaches its next instant; the jobs that match it become due.
ClockTick ==
    /\ due \cap live = {}
    /\ \E t \in ClockInstants :
           /\ t > now
           /\ \A u \in ClockInstants : u > now => t <= u
           /\ now' = t
           /\ due' = { j \in live : cronMatches(jobExpr[j], t) }
    /\ UNCHANGED <<config, cronJob, isRunning, lastRunTime, lastCronExpression, live,
                   jobExpr, pc, attempts, calls, sleeps, lastOutcome, startReturned,
                   stopRequested, origin, skippedCall, backoffs, firedAt>>
    /\ UNCHANGED otherVars

\* The cron library invokes the callback of the due job j, unless the job was
\* stopped meanwhile.
FireDue(j) ==
    /\ j \in due \cap live
    /\ \E p \in Procs :
           /\ NewProc(p) /\ runScheduledTask(p) /\ Called(p, "scheduled")
           /\ firedAt' = IF pc'[p] = "task" THEN now ELSE firedAt
    /\ due' = due \ {j}

\* the one call of start()
StartOnce == startReturned = "none" /\ Start

InitClock == EngineConstructed(ClockConfigs) /\ OthersAbsent

NextClock ==
    \/ StartOnce
    \/ ClockTick
    \/ \E j \in JobIds : FireDue(j)
    \/ \E p \in Procs : TaskSucceed(p)
    \/ \E p \in Procs : TaskFail(p)
    \/ \E p \in Procs : BackoffDone(p)

SpecClock == InitClock /\ [][NextClock]_vars

\* ------------------------------------------------- the engine with fair scheduling
\* The engine whose task invocations all settle and whose timers all expire:
\* an awaited task callback eventually resolves or rejects, and a backoff
\* sleep eventually ends.  Time of day plays no part.
FairConfigs ==
    { [scheduling |-> sc, crashRecovery |-> cr] :
        sc \in { [enabled |-> TRUE, time |-> T0900],
                 [enabled |-> TRUE, cron |-> [schedule |-> CronEvery30]] },
        cr \in CrashRecoveryConfigs }

InitFair == EngineConstructed(FairConfigs) /\ OthersAbsent

NextFair ==
    \/ Start
    \/ Stop
    \/ TriggerNow
    \/ \E j \in JobIds : Fire(j)
    \/ \E p \in Procs : TaskSucceed(p)
    \/ \E p \in Procs : TaskFail(p)
    \/ \E p \in Procs : BackoffDone(p)

\* The task callback awaited by invocation p settles: no invocation awaits it
\* for ever.  (TaskSucceed and TaskFail are enabled exactly while pc[p] is
\* "task" and are the only steps that end it, so this is weak fairness of
\* their disjunction.)
TaskSettles(p) == []<>(pc[p] # "task")

SpecFair ==
    /\ InitFair /\ [][NextFair]_vars
    /\ \A p \in Procs : TaskSettles(p) /\ WF_vars(BackoffDone(p))

\* ---------------------------------------- the engine when cron.schedule can throw
\* The engine with a cron library whose schedule call may throw instead of
\* returning a job, at each of its three call sites.

\* whether rescheduleWithJitter() gets as far as its call of cron.schedule
rescheduleArms(cfg, offset) ==
    /\ ~rescheduleSkipped(cfg)
    /\ LET b == buildSchedule(cfg.scheduling, offset)
       IN  Truthy(b.cronExpr) /\ cronValidate(b.cronExpr)

\* rescheduleWithJitter() in which cron.schedule throws: the armed job has been
\* stopped, this.cronJob still refers to it and lastCronExpression is not assigned
rescheduleThrown(trigger) ==
    IF trigger.cronJob # NoJob THEN cronStop(trigger, trigger.cronJob) ELSE trigger

\* The re-arm after the loop throws: finally has run, and the error leaves
\* runScheduledTask, whose promise rejects; a is the number of failures counted.
LoopExitThrows(p, a) ==
    /\ SetTrigger(rescheduleThrown(Trigger))
    /\ isRunning' = runningAfterAttempt
    /\ pc' = [pc EXCEPT ![p] = "idle"]
    /\ attempts' = [attempts EXCEPT ![p] = 0]
    /\ calls' = [calls EXCEPT ![p] = 0]
    /\ sleeps' = [sleeps EXCEPT ![p] = 0]
    /\ backoffs' = [backoffs EXCEPT ![p] = <<>>]
    /\ lastOutcome' = [kind |-> "threw", calls |-> calls[p],
                       sleeps |-> sleeps[p], fails |-> a]
    /\ UNCHANGED lastRunTime

\* await this.taskCallback() resolves and cron.schedule throws in the re-arm that
\* follows inside the try block: catch, then the backoff sleep starts, or finally
\* runs, the loop is left and the schedule is re-armed once more, which works or
\* throws again
TaskSucceedThrows(p) ==
    /\ pc[p] = "task"
    /\ \E offset \in rescheduleDraws(config) : rescheduleArms(config, offset)
    /\ LET a == attemptsAfterFailure(attempts[p])
       IN  IF retryAfterFailure(a, maxRetriesOf(config))
           THEN /\ SetTrigger(rescheduleThrown(Trigger))
                /\ pc' = [pc EXCEPT ![p] = "backoff"]
                /\ attempts' = [attempts EXCEPT ![p] = a]
                /\ backoffs' = [backoffs EXCEPT ![p] = Append(@, backoffFor(config, a))]
                /\ UNCHANGED <<isRunning, lastRunTime, calls, sleeps, lastOutcome>>
           ELSE \/ LoopHead(p, a, runningAfterAttempt, sleeps[p])
                \/ LoopExitThrows(p, a)
    /\ Resumed(p)
    /\ UNCHANGED <<config, now, startReturned, stopRequested, due, firedAt>>
    /\ UNCHANGED otherVars

\* await this.taskCallback() rejects for the last time and cron.schedule throws
\* in the re-arm after the loop
TaskFailThrows(p) ==
    /\ pc[p] = "task"
    /\ \E offset \in rescheduleDraws(config) : rescheduleArms(config, offset)
    /\ ~retryAfterFailure(attemptsAfterFailure(attempts[p]), maxRetriesOf(config))
    /\ LoopExitThrows(p, attemptsAfterFailure(attempts[p]))
    /\ Resumed(p)
    /\ UNCHANGED <<config, now, startReturned, stopRequested, due, firedAt>>
    /\ UNCHANGED otherVars

\* start() is called and cron.schedule throws: the catch block returns false
StartThrows ==
    /\ Cardinality(live) < MaxJobs
    /\ \E offset \in startDraws(config) : start(Trigger, config, offset).ok
    /\ startReturned' = "false"
    /\ stopRequested' = "no"
    /\ UNCHANGED <<config, cronJob, isRunning, lastRunTime, lastCronExpression, live,
                   jobExpr, now, pc, attempts, calls, sleeps, lastOutcome, origin,
                   skippedCall, backoffs, due, firedAt>>
    /\ UNCHANGED otherVars

ThrowConfigs ==
    { [scheduling |-> sc, crashRecovery |-> cr] :
        sc \in { [enabled |-> TRUE, time |-> T0900],
                 [enabled |-> TRUE, cron |-> [schedule |-> Cron0900]] },
        cr \in { <<>>, [maxRestarts |-> 0], [maxRestarts |-> 2] } }

InitThrow == EngineConstructed(ThrowConfigs) /\ OthersAbsent

NextThrow ==
    \/ Start
    \/ StartThrows
    \/ Stop
    \/ TriggerNow
    \/ \E j \in JobIds : Fire(j)
    \/ \E p \in Procs : TaskFailThrows(p)
    \/ \E p \in Procs : TaskFail(p)
    \/ \E p \in Procs : TaskSucceedThrows(p)
    \/ \E p \in Procs : TaskSucceed(p)
    \/ \E p \in Procs : BackoffDone(p)

SpecThrow == InitThrow /\ [][NextThrow]_vars

\* ------------------------------------------------------------------------ Retry
\* A multiplier or jitter value is a fraction num/den.
Frac(n, d) == [num |-> n, den |-> d]

Min(a, b) == IF a < b THEN a ELSE b
Max(a, b) == IF a > b THEN a ELSE b

\* new Retry(policy): the defaults fill the fields the configuration leaves out
RetryPolicy(cfg) ==
    [maxAttempts |-> IF Has(cfg, "maxAttempts") THEN cfg.maxAttempts ELSE DefaultMaxAttempts,
     baseDelay |-> IF Has(cfg, "baseDelay") THEN cfg.baseDelay ELSE DefaultBaseDelay,
     maxDelay |-> IF Has(cfg, "maxDelay") THEN cfg.maxDelay ELSE DefaultMaxDelay,
     multiplier |-> IF Has(cfg, "multiplier") THEN cfg.multiplier ELSE Frac(2, 1),
     jitter |-> IF Has(cfg, "jitter") THEN cfg.jitter ELSE Frac(1, 5)]

\* The policy configurations a Retry object is constructed with.
RetryPolicyConfigs ==
    { a @@ d @@ m @@ j :
        a \in { <<>>, [maxAttempts |-> 0], [maxAttempts |-> 1], [maxAttempts |-> 2] },
        d \in { <<>>, [baseDelay |-> 10, maxDelay |-> 25],
                [baseDelay |-> 50, maxDelay |-> 20] },
        m \in { <<>>, [multiplier |-> Frac(3, 2)], [multiplier |-> Frac(0, 1)] },
        j \in { <<>>, [jitter |-> Frac(0, 1)], [jitter |-> Frac(1, 1)] } }

\* sleepFor without the upper clamp to maxDelay
sleepForUnclamped(pol, d, r) ==
    LET scale == RandSteps * pol.jitter.den
        factor == scale + (2 * r - RandSteps) * pol.jitter.num
    IN  Max(0, (d * factor) \div scale)

\* Math.min(maxDelay, Math.max(0, Math.floor(delay * jitter))) with
\* jitter = 1 + (Math.random() * 2 - 1) * policy.jitter and Math.random() = r/RandSteps
sleepFor(pol, d, r) ==
    LET scale == RandSteps * pol.jitter.den
        factor == scale + (2 * r - RandSteps) * pol.jitter.num
    IN  Min(pol.maxDelay, Max(0, (d * factor) \div scale))

\* Math.min(maxDelay, Math.floor(delay * (multiplier || 2)))
nextDelay(pol, d) ==
    LET m == IF pol.multiplier.num = 0 THEN Frac(2, 1) ELSE pol.multiplier
    IN  Min(pol.maxDelay, (d * m.num) \div m.den)

\* while (attempt < this.policy.maxAttempts)
retryLoopContinues(a, pol) == a < pol.maxAttempts

\* retryBreaks without the test of the predicate's answer
retryBreaksOnCountOnly(retry, a, pol) == a >= pol.maxAttempts

\* retryBreaks with the comparison off by one: the loop is left one attempt early
retryBreaksEarly(retry, a, pol) == ~retry \/ a + 1 >= pol.maxAttempts

\* if (!retry || attempt >= this.policy.maxAttempts) break
retryBreaks(retry, a, pol) == ~retry \/ a >= pol.maxAttempts

\* The head of the loop of run, reached with attempt = a: fn is invoked, or
\* the loop is left and the last error is thrown.
RetryLoopHead(a) ==
    IF retryLoopContinues(a, policy)
    THEN /\ rpc' = "fn"
         /\ fnCalls' = fnCalls + 1
    ELSE /\ rpc' = "thrown"
         /\ fnCalls' = fnCalls

\* new Retry(cfg).run(fn, isRetryable) is called, up to its first await
RetryRun ==
    /\ rpc = "idle"
    /\ attempt' = 0
    /\ delay' = policy.baseDelay
    /\ RetryLoopHead(0)
    /\ UNCHANGED <<policy, isRetryableGiven, slept, nominal, lastErr>>
    /\ UNCHANGED <<engineVars, resolverVars, trackerVars>>

\* await fn() resolves: run returns its value
FnResolve ==
    /\ rpc = "fn"
    /\ rpc' = "returned"
    /\ UNCHANGED <<policy, isRetryableGiven, attempt, delay, slept, nominal, fnCalls,
                   lastErr>>
    /\ UNCHANGED <<engineVars, resolverVars, trackerVars>>

\* await fn() rejects with an error for which isRetryable would give e = "retryable"
FnReject(e) ==
    /\ rpc = "fn"
    /\ lastErr' = e
    /\ attempt' = attempt + 1
    /\ LET retry == IF isRetryableGiven THEN e = "retryable" ELSE TRUE
       IN  IF retryBreaks(retry, attempt + 1, policy)
           THEN /\ rpc' = "thrown"
                /\ UNCHANGED <<slept, nominal>>
           ELSE /\ rpc' = "sleep"
                /\ \E r \in 0..(RandSteps - 1) :
                       slept' = Append(slept, sleepFor(policy, delay, r))
                /\ nominal' = Append(nominal, delay)
    /\ UNCHANGED <<policy, isRetryableGiven, delay, fnCalls>>
    /\ UNCHANGED <<engineVars, resolverVars, trackerVars>>

\* the sleep ends: the delay grows and control is back at the loop head
SleepDone ==
    /\ rpc = "sleep"
    /\ delay' = nextDelay(policy, delay)
    /\ RetryLoopHead(attempt)
    /\ UNCHANGED <<policy, isRetryableGiven, attempt, slept, nominal, lastErr>>
    /\ UNCHANGED <<engineVars, resolverVars, trackerVars>>

\* A Retry object is constructed from a configuration among cfgs and run is
\* about to be called.
RetryConstructed(cfgs) ==
    /\ policy \in { RetryPolicy(cfg) : cfg \in cfgs }
    /\ isRetryableGiven \in BOOLEAN
    /\ rpc = "idle"
    /\ attempt = 0
    /\ delay = 0
    /\ slept = <<>>
    /\ nominal = <<>>
    /\ fnCalls = 0
    /\ lastErr = "none"

NextRetry ==
    \/ RetryRun
    \/ FnResolve
    \/ \E e \in {"retryable", "fatal"} : FnReject(e)
    \/ SleepDone

InitRetry ==
    /\ EngineConstructed({ [scheduling |-> [enabled |-> FALSE], crashRecovery |-> <<>>] })
    /\ RetryConstructed(RetryPolicyConfigs)
    /\ ResolverAbsent
    /\ TrackerAbsent

SpecRetry == InitRetry /\ [][NextRetry]_vars

\* ------------------------------------------------- engine and Retry side by side
\* One engine whose runs are triggered by hand and one Retry object.
InitBoth ==
    /\ EngineConstructed(
           { [scheduling |-> [enabled |-> TRUE, time |-> T0900],
              crashRecovery |-> [maxRestarts |-> 3]],
             [scheduling |-> [enabled |-> TRUE, cron |-> [schedule |-> Cron0900]],
              crashRecovery |-> <<>>] })
    /\ RetryConstructed(
           { <<>>, [maxAttempts |-> 2, baseDelay |-> 10, maxDelay |-> 25] })
    /\ ResolverAbsent
    /\ TrackerAbsent

NextBoth ==
    \/ TriggerNow
    \/ \E p \in Procs : TaskSucceed(p)
    \/ \E p \in Procs : TaskFail(p)
    \/ \E p \in Procs : BackoffDone(p)
    \/ RetryRun
    \/ FnResolve
    \/ \E e \in {"retryable", "fatal"} : FnReject(e)
    \/ SleepDone

SpecBoth == InitBoth /\ [][NextBoth]_vars

\* ------------------------------------------------------------ schedule resolution
\* buildSchedule on its own, called once on one configuration.
T0010 == <<"0", "0", ":", "1", "0">>
T0900Spaced == <<" ", "0", "9", ":", "0", "0", " ">>
T0960 == <<"0", "9", ":", "6", "0">>
TNoColon == <<"0", "9", "0", "0">>
TBlank == <<" ">>

JitterDefault == [enabled |-> TRUE]
Jitter2030 == [enabled |-> TRUE, minMinutesBefore |-> 20, maxMinutesAfter |-> 30]
JitterZero == [enabled |-> TRUE, minMinutesBefore |-> 0, maxMinutesAfter |-> 0]
JitterSigned == [enabled |-> TRUE, minMinutesBefore |-> -15, maxMinutesAfter |-> 0]
JitterTwoDays == [enabled |-> TRUE, minMinutesBefore |-> 0, maxMinutesAfter |-> 1441]
JitterUnset == [minMinutesBefore |-> 20, maxMinutesAfter |-> 30]

\* The scheduleConfig values buildSchedule is called with.
ScheduleInputs ==
    { t @@ c @@ j :
        t \in { <<>> } \cup { [time |-> x] : x \in { T0900, T0010, T2359, T9c5, T0900Spaced,
                                                   T2400, T0960, TNoColon, TBlank, <<>> } },
        c \in { <<>>, [cron |-> <<>>] }
                 \cup { [cron |-> [schedule |-> x]] : x \in { Cron0900, CronEvery30, <<>> } },
        j \in { <<>> } \cup { [jitter |-> x] : x \in { JitterOff, JitterUnset, JitterZero,
                                                     JitterDefault, Jitter2030,
                                                     JitterSigned } } }
    \cup { [time |-> T2359, jitter |-> JitterTwoDays] }

\* buildSchedule(resolveInput) is called
Resolve ==
    /\ resolved = NotResolved
    /\ \E offset \in scheduleDraws(resolveInput) :
           /\ resolveDraw' = offset
           /\ resolved' = buildSchedule(resolveInput, offset)
    /\ UNCHANGED resolveInput
    /\ UNCHANGED <<engineVars, retryVars, trackerVars>>

InitResolve ==
    /\ EngineConstructed({ [scheduling |-> [enabled |-> FALSE], crashRecovery |-> <<>>] })
    /\ RetryAbsent
    /\ TrackerAbsent
    /\ resolveInput \in ScheduleInputs
    /\ resolveDraw = 0
    /\ resolved = NotResolved

NextResolve == Resolve

SpecResolve == InitResolve /\ [][NextResolve]_vars

\* ------------------------------------------------------------- MobileRetryTracker
\* One tracker, constructed with one budget; registerFailure() is then called
\* up to MaxRegisterCalls times.
MaxRegisterCalls == 6

\* The numbers the constructor is given as maxRetries: the three values that
\* are not finite, integers, and halves on either side of zero.
TrackerBudgets ==
    { Number("NaN", 0, 1), Number("Infinity", 0, 1), Number("-Infinity", 0, 1) }
    \cup { Number("finite", n, 1) : n \in {-3, -1, 0, 1, 2, 3, 5, 7} }
    \cup { Number("finite", n, 2) : n \in {-3, -1, 1, 3, 5, 7, 11, 15} }

\* Number.isFinite(x)
isFinite(x) == x.kind = "finite"

\* Math.floor(x) of a finite x
mathFloor(x) == x.num \div x.den

\* the constructor's value of this.maxRetries for the argument x
normalizeMaxRetries(x) ==
    LET normalized == IF isFinite(x) THEN mathFloor(x) ELSE 0
    IN  Max(0, normalized)

\* registerReturns with a strict comparison: the last retry of the budget is refused
registerReturnsStrict(a, m) == a < m

\* return this.attempts <= this.maxRetries, in registerFailure
registerReturns(a, m) == a <= m

\* hasExceeded()
hasExceeded == trackerAttempts > trackerMaxRetries

\* getAttemptCount()
getAttemptCount == trackerAttempts

\* registerFailure() is called
RegisterFailure ==
    /\ Len(registerReturned) < MaxRegisterCalls
    /\ trackerAttempts' = trackerAttempts + 1
    /\ registerReturned' =
           Append(registerReturned, registerReturns(trackerAttempts + 1, trackerMaxRetries))
    /\ UNCHANGED <<trackerArg, trackerMaxRetries>>
    /\ UNCHANGED <<engineVars, retryVars, resolverVars>>

\* new MobileRetryTracker(x) for a budget x among budgets
TrackerConstructed(budgets) ==
    /\ trackerArg \in budgets
    /\ trackerMaxRetries = normalizeMaxRetries(trackerArg)
    /\ trackerAttempts = 0
    /\ registerReturned = <<>>

InitTracker ==
    /\ EngineConstructed({ [scheduling |-> [enabled |-> FALSE], crashRecovery |-> <<>>] })
    /\ RetryAbsent
    /\ ResolverAbsent
    /\ TrackerConstructed(TrackerBudgets)

NextTracker == RegisterFailure

SpecTracker == InitTracker /\ [][NextTracker]_vars

\* ------------------------------------------------------------------- properties

\* C1: at most one invocation of runScheduledTask is past the overlap check at
\* any time, whether it awaits the task callback or sleeps in backoff; every
\* other firing or triggerNow() that arrives meanwhile has returned as skipped.
C1_AtMostOneRun == Cardinality({ p \in Procs : pc[p] # "idle" }) <= 1

\* A firing arrived while a run was sleeping in backoff, and was skipped.
C1_Witness == lastOutcome.kind = "skipped" /\ \E p \in Procs : pc[p] = "backoff"

\* C2 (as claimed, for a stop() during a run): once stop() was called on a
\* started engine while a run was in progress, and start() has not been called
\* since, no step arms a trigger again, the end of that run included:
\* isActive() stays false.
C2_StopStaysStopped ==
    [][(/\ startReturned = "true"
        /\ stopRequested = "running" /\ stopRequested' = "running"
        /\ ~isActive)
           => ~isActive']_vars

\* C3 (as claimed): the cron library never holds two live jobs of this engine.
C3_AtMostOneLiveTrigger == Cardinality(live) <= 1

\* C4: whenever no run is in progress, whatever way the last one ended, the
\* overlap guard is released, so the next firing or triggerNow() is accepted.
C4_GuardReleased == AllIdle => ~overlapSkip(isRunning)

\* A run ended with all its attempts failed and a later firing was accepted.
C4_Witness ==
    /\ lastOutcome.kind = "failed" /\ lastOutcome.calls >= 1
    /\ \E p \in Procs : pc[p] = "task"

\* C5 (as claimed): a run that ends as failed with maxRestarts = N >= 1 has
\* invoked the task exactly N times.
C5_FailedAfterN ==
    (lastOutcome.kind = "failed" /\ maxRetriesOf(config) >= 1)
        => lastOutcome.calls = maxRetriesOf(config)

\* C5 (amended): a run that ends as failed with maxRestarts = N >= 1 has invoked
\* the task exactly N + 1 times, and no run ever invokes it more often.
C5_FailedAfterNPlus1 ==
    maxRetriesOf(config) >= 1 =>
        /\ \A p \in Procs : calls[p] <= maxRetriesOf(config) + 1
        /\ lastOutcome.kind = "failed" => lastOutcome.calls = maxRetriesOf(config) + 1

\* With maxRestarts = 2 a run failed after three invocations of the task.
C5_Witness ==
    /\ maxRetriesOf(config) = 2
    /\ lastOutcome.kind = "failed" /\ lastOutcome.calls = 3

\* every error of the call of run was retryable
AllRetryable == ~isRetryableGiven \/ lastErr # "fatal"

\* C6: Retry.run with maxAttempts = N >= 1 never invokes fn more than N times,
\* and when it throws after errors that were all retryable it has invoked fn
\* exactly N times.
C6_RetryThrowsAfterN ==
    policy.maxAttempts >= 1 =>
        /\ fnCalls <= policy.maxAttempts
        /\ (rpc = "thrown" /\ AllRetryable) => fnCalls = policy.maxAttempts

\* run threw after three failed invocations under the default policy.
C6_Witness ==
    /\ rpc = "thrown" /\ AllRetryable
    /\ policy.maxAttempts = 3 /\ fnCalls = 3

\* C7: a run that succeeds after k failures has invoked the task k + 1 times
\* and slept k times, in runScheduledTask and in Retry.run alike.
C7_SuccessAfterK ==
    /\ lastOutcome.kind = "succeeded" =>
           /\ lastOutcome.calls = lastOutcome.fails + 1
           /\ lastOutcome.sleeps = lastOutcome.fails
    /\ rpc = "returned" =>
           /\ fnCalls = attempt + 1
           /\ Len(slept) = attempt

\* Both succeeded at the third invocation, after two failures and two sleeps.
C7_Witness ==
    /\ lastOutcome.kind = "succeeded" /\ lastOutcome.fails = 2
    /\ lastOutcome.calls = 3 /\ lastOutcome.sleeps = 2
    /\ rpc = "returned" /\ attempt = 2 /\ fnCalls = 3 /\ Len(slept) = 2

\* C8: in every state, stop() leaves isActive() false, and a second stop()
\* right after it changes nothing.
C8_StopIdempotent ==
    LET once == stop(Trigger)
        twice == stop(once)
    IN  once.cronJob = NoJob /\ twice = once

\* stop() was called on a started engine.
C8_Witness ==
    /\ stopRequested # "no" /\ startReturned = "true"
    /\ ~isActive /\ lastCronExpression # Null

\* C9 (as claimed): isActive() is true exactly when a live cron job of this
\* engine exists.
C9_ActiveIffLive == isActive <=> live # {}

\* start() cannot succeed on this configuration, whatever is drawn
StartMustFail ==
    \/ ~schedulingEnabled(config)
    \/ \A offset \in startDraws(config) :
           LET b == buildSchedule(config.scheduling, offset)
           IN  ~Truthy(b.cronExpr) \/ ~cronValidate(b.cronExpr)

\* C10: when scheduling is disabled, the time is malformed or the expression is
\* invalid, a call of start() returns false and changes neither the trigger
\* nor lastCronExpression, isRunning or lastRunTime.
C10_StartFailsClosed ==
    [][(StartMustFail /\ Start) =>
           /\ startReturned' = "false"
           /\ UNCHANGED <<cronJob, live, jobExpr, lastCronExpression, isRunning,
                          lastRunTime>>]_vars

\* start() returned false on an engine that had already run the task once.
C10_Witness ==
    /\ startReturned = "false" /\ StartMustFail
    /\ lastRunTime # NoDate /\ ~isActive /\ lastCronExpression = Null

\* C11: a run that ends as failed after at least one attempt does not stop the
\* engine.  If a trigger is armed when the run ends (it was armed when the firing
\* began and stop() was not called), a live trigger is armed after it and the
\* overlap guard is released; and the next firing after a failed run invokes the
\* task as the first attempt of a new run.
C11_FailedRunKeepsEngine ==
    [][/\ \A p \in Procs :
              (pc[p] # "idle" /\ pc'[p] = "idle" /\ lastOutcome'.kind = "failed"
                  /\ isActive)
                 => (isActive' /\ cronJob' \in live' /\ ~overlapSkip(isRunning'))
       /\ (/\ AllIdle /\ lastOutcome.kind = "failed" /\ lastOutcome.calls >= 1
           /\ \E j \in JobIds : Fire(j))
              => \E p \in Procs :
                     pc'[p] = "task" /\ attempts'[p] = 0 /\ calls'[p] = 1]_vars

\* After a failed run on a started engine, the next firing began a new run.
C11_Witness ==
    /\ startReturned = "true" /\ stopRequested = "no" /\ isActive
    /\ lastOutcome.kind = "failed" /\ lastOutcome.calls >= 1
    /\ \E p \in Procs :
           /\ pc[p] = "task" /\ origin[p] = "scheduled"
           /\ attempts[p] = 0 /\ calls[p] = 1

\* C12 (as claimed): the schedule fires the task at most once per day: when a
\* firing by the clock begins a run after an earlier run has completed, the
\* earlier run was fired on an earlier day.
C12_OncePerDay ==
    [][(/\ AllIdle /\ firedAt # NoDate
        /\ \E p \in Procs : pc'[p] = "task" /\ origin'[p] = "scheduled")
           => firedAt \div MinutesInDay < now \div MinutesInDay]_vars

\* C13: triggerNow() and a scheduled firing take the same path through the same
\* overlap guard: a triggerNow() issued while a scheduled run is in progress is
\* skipped without invoking the task or touching the run, and so is a scheduled
\* firing that arrives while a manually triggered run is in progress.
C13_SameGuardForManual ==
    [][/\ (TriggerNow /\ \E p \in Procs : pc[p] # "idle" /\ origin[p] = "scheduled")
              => /\ lastOutcome'.kind = "skipped" /\ skippedCall' = "manual"
                 /\ UNCHANGED <<pc, calls, attempts, isRunning>>
       /\ ((\E j \in JobIds : Fire(j))
               /\ \E p \in Procs : pc[p] # "idle" /\ origin[p] = "manual")
              => /\ lastOutcome'.kind = "skipped" /\ skippedCall' = "scheduled"
                 /\ UNCHANGED <<pc, calls, attempts, isRunning>>]_vars

\* A triggerNow() was skipped while a scheduled run was awaiting the task.
C13_Witness ==
    /\ lastOutcome.kind = "skipped" /\ skippedCall = "manual"
    /\ \E p \in Procs : pc[p] = "task" /\ origin[p] = "scheduled" /\ calls[p] = 1

\* C14: getStatus() called after a successful start() and before any firing or
\* triggerNow() (no call of runScheduledTask has been made, none is in progress)
\* reports active = true, isRunning = false and lastRun = null.
C14_StatusAfterStart ==
    (startReturned = "true" /\ stopRequested = "no"
        /\ lastOutcome.kind = "none" /\ AllIdle)
       => \A offset \in startDraws(config) :
              LET status == getStatus(offset)
              IN  status.active /\ ~status.isRunning /\ status.lastRun = Null

\* start() has returned true and nothing has run since the engine was built.
C14_Witness ==
    /\ startReturned = "true" /\ stopRequested = "no"
    /\ lastOutcome.kind = "none" /\ AllIdle
    /\ \A offset \in startDraws(config) : getStatus(offset).nextRun.kind = "time"

\* buildSchedule has been called
ResolveCalled == resolved # NotResolved

\* a time is configured (a non-empty string)
TimeGiven == Truthy(scheduleTime(resolveInput))

\* s, trimmed, is one or two digits, a colon and two digits, within 0..23 and 0..59
WellFormedTime(s) ==
    LET parts == split(trim(s), ":")
    IN  /\ Len(parts) = 2
        /\ IsDigits(parts[1]) /\ Len(parts[1]) <= 2 /\ parseInt(parts[1]) <= 23
        /\ IsDigits(parts[2]) /\ Len(parts[2]) = 2 /\ parseInt(parts[2]) <= 59

\* s is written as HH:MM, two digits each and nothing around them
StrictHHMM(s) == WellFormedTime(s) /\ Len(s) = 5 /\ trim(s) = s

\* the minute of the day a well-formed time names
MinuteOfDay(s) ==
    LET parts == split(trim(s), ":")
    IN  parseInt(parts[1]) * MinutesInHour + parseInt(parts[2])

\* the minute and the hour a daily expression names
ExprMinute(cronExpr) == parseInt(split(cronExpr, " ")[1])
ExprHour(cronExpr) == parseInt(split(cronExpr, " ")[2])

\* the expression runs once a day: literal minute and hour, every day
DailyExpr(cronExpr) ==
    LET parts == split(cronExpr, " ")
    IN  /\ Len(parts) = 5 /\ IsDigits(parts[1]) /\ IsDigits(parts[2])
        /\ parts[3] = <<"*">> /\ parts[4] = <<"*">> /\ parts[5] = <<"*">>
        /\ ExprMinute(cronExpr) <= 59 /\ ExprHour(cronExpr) <= 23

\* the time s as the engine displays it: trimmed, the hour padded to two digits
Displayed(s) == IF Len(trim(s)) = 4 THEN <<"0">> \o trim(s) ELSE trim(s)

\* C15: for every valid time with jitter disabled, resolution applies offset 0
\* and yields a daily expression whose minute and hour are the configured ones
\* and a display time equal to the configured string when that is written as
\* HH:MM (for the other strings the code accepts, "9:05" or a padded one, it is
\* the string trimmed with the hour padded to two digits).
C15_NoJitterIdentity ==
    (ResolveCalled /\ TimeGiven /\ WellFormedTime(resolveInput.time)
        /\ ~jitterEnabled(jitterOf(resolveInput)))
       => /\ resolved.jitterApplied = 0 /\ resolveDraw = 0
          /\ DailyExpr(resolved.cronExpr)
          /\ ExprHour(resolved.cronExpr) * MinutesInHour + ExprMinute(resolved.cronExpr)
                 = MinuteOfDay(resolveInput.time)
          /\ resolved.displayTime = Displayed(resolveInput.time)
          /\ StrictHHMM(resolveInput.time) => resolved.displayTime = resolveInput.time

\* "23:59" was resolved with jitter switched off.
C15_Witness ==
    /\ ResolveCalled /\ TimeGiven /\ resolveInput.time = T2359
    /\ Has(resolveInput, "jitter") /\ resolveInput.jitter = JitterOff
    /\ resolved.displayTime = T2359 /\ resolved.jitterApplied = 0
    /\ ExprHour(resolved.cronExpr) = 23 /\ ExprMinute(resolved.cronExpr) = 59

\* C16: for every base time (configured, or the default 09:00) and every drawn
\* offset, the resolved expression names the minute of the day
\* (base + offset) mod 1440, with the hour in 0..23 and the minute in 0..59, and
\* the offset reported is the one drawn.
C16_JitterWraps ==
    (ResolveCalled /\ resolved.cronExpr # Null
        /\ (TimeGiven \/ ~Truthy(legacySchedule(resolveInput))))
       => LET base == IF TimeGiven THEN MinuteOfDay(resolveInput.time)
                      ELSE DefaultHour * MinutesInHour
          IN  /\ DailyExpr(resolved.cronExpr)
              /\ ExprHour(resolved.cronExpr) * MinutesInHour
                     + ExprMinute(resolved.cronExpr)
                     = (base + resolveDraw) % MinutesInDay
              /\ resolved.jitterApplied = resolveDraw

\* Base 00:10 with offset -20 was resolved to 23:50.
C16_Witness ==
    /\ ResolveCalled /\ TimeGiven /\ resolveInput.time = T0010 /\ resolveDraw = -20
    /\ ExprHour(resolved.cronExpr) = 23 /\ ExprMinute(resolved.cronExpr) = 50

\* C17: when jitter is applied to a time-based schedule the display time is the
\* configured, unjittered time; and "09:00" with the window 20 before / 30
\* after and the drawn offset +15 yields the expression "15 9 * * *", the display
\* time "09:00" and the applied offset 15.
C17_DisplayUnjittered ==
    /\ (ResolveCalled /\ TimeGiven /\ resolved.jitterApplied # 0)
           => resolved.displayTime = Displayed(resolveInput.time)
    /\ (/\ ResolveCalled /\ TimeGiven /\ resolveInput.time = T0900
        /\ Has(resolveInput, "jitter") /\ resolveInput.jitter = Jitter2030
        /\ resolveDraw = 15)
           => /\ resolved.cronExpr = <<"1", "5", " ", "9", " ", "*", " ", "*", " ", "*">>
              /\ resolved.displayTime = <<"0", "9", ":", "0", "0">>
              /\ resolved.jitterApplied = 15

\* "09:00" with the window 20 / 30 was resolved with the offset +15 drawn.
C17_Witness ==
    /\ ResolveCalled /\ TimeGiven /\ resolveInput.time = T0900
    /\ Has(resolveInput, "jitter") /\ resolveInput.jitter = Jitter2030
    /\ resolveDraw = 15 /\ resolved.jitterApplied = 15

\* C18: if scheduling.time is present (a non-empty string, as the code tests it)
\* and malformed, resolution fails and start() never returns true: no trigger is
\* ever armed and no expression recorded, even when a valid legacy expression is
\* configured as well.
C18_MalformedTimeFails ==
    (/\ schedulingEnabled(config)
     /\ Truthy(scheduleTime(config.scheduling))
     /\ ~WellFormedTime(config.scheduling.time))
       => /\ \A offset \in startDraws(config) :
                 buildSchedule(config.scheduling, offset).cronExpr = Null
          /\ startReturned # "true"
          /\ ~isActive /\ live = {} /\ lastCronExpression = Null

\* start() returned false for the time "24:00" configured next to a valid
\* legacy expression.
C18_Witness ==
    /\ schedulingEnabled(config) /\ startReturned = "false"
    /\ Truthy(scheduleTime(config.scheduling)) /\ config.scheduling.time = T2400
    /\ Truthy(legacySchedule(config.scheduling))
    /\ cronValidate(config.scheduling.cron.schedule)

\* C19: resolution reads one source, by fixed priority.  With a time present (a
\* non-empty string) the result comes from the time and the jitter alone,
\* whatever the legacy expression is; otherwise a legacy expression that is
\* present is passed through verbatim with offset 0 and no draw; otherwise the
\* result is the default 09:00 with the jitter applied.
C19_OneSourceByPriority ==
    ResolveCalled =>
        IF TimeGiven
        THEN IF WellFormedTime(resolveInput.time)
             THEN /\ DailyExpr(resolved.cronExpr)
                  /\ ExprHour(resolved.cronExpr) * MinutesInHour
                         + ExprMinute(resolved.cronExpr)
                         = (MinuteOfDay(resolveInput.time) + resolveDraw) % MinutesInDay
                  /\ resolved.displayTime = Displayed(resolveInput.time)
             ELSE resolved.cronExpr = Null
        ELSE IF Truthy(legacySchedule(resolveInput))
        THEN /\ resolved.cronExpr = resolveInput.cron.schedule
             /\ resolved.jitterApplied = 0 /\ resolveDraw = 0
        ELSE /\ DailyExpr(resolved.cronExpr)
             /\ ExprHour(resolved.cronExpr) * MinutesInHour
                    + ExprMinute(resolved.cronExpr)
                    = (DefaultHour * MinutesInHour + resolveDraw) % MinutesInDay
             /\ resolved.displayTime = <<"0", "9", ":", "0", "0">>
             /\ resolved.jitterApplied = resolveDraw

\* A legacy expression was passed through although jitter was enabled.
C19_Witness ==
    /\ ResolveCalled /\ ~TimeGiven /\ Truthy(legacySchedule(resolveInput))
    /\ Has(resolveInput, "jitter") /\ resolveInput.jitter = Jitter2030
    /\ resolved.cronExpr = CronEvery30 /\ resolved.jitterApplied = 0

\* C20 (as claimed): the backoff awaited after the k-th failed attempt of a run is
\* the base delay times 2^(k-1), doubling from one retry to the next (the
\* scheduler has no maxDelay to clamp it to).
C20_ExponentialBackoff ==
    \A p \in Procs : \A k \in 1..Len(backoffs[p]) :
        backoffs[p][k] = backoffBaseMsOf(config) * 2 ^ (k - 1)

\* a policy within the documented ranges: delays not negative, multiplier at
\* least 1, jitter between 0 and 1
ValidPolicy(pol) ==
    /\ pol.baseDelay >= 0 /\ pol.maxDelay >= 0
    /\ pol.multiplier.num >= pol.multiplier.den
    /\ pol.jitter.num >= 0 /\ pol.jitter.num <= pol.jitter.den

\* C21: in Retry.run under a policy within the documented ranges, every delay
\* slept between two attempts lies in [0, maxDelay], whatever the random draw.
C21_SleptWithinMaxDelay ==
    ValidPolicy(policy) =>
        \A k \in 1..Len(slept) : slept[k] >= 0 /\ slept[k] <= policy.maxDelay

\* Two sleeps were awaited and the clamp cut both: the base delay exceeds
\* maxDelay, so the delay times the jitter factor was above maxDelay each time.
C21_Witness ==
    /\ ValidPolicy(policy) /\ policy.baseDelay > policy.maxDelay
    /\ Len(slept) = 2 /\ slept[1] = policy.maxDelay /\ slept[2] = policy.maxDelay
    /\ policy.jitter.num = 0

\* C22 (as claimed): in Retry.run under a policy within the documented ranges,
\* the delay before jitter does not decrease from one retry to the next, also
\* when baseDelay exceeds maxDelay.
C22_NominalNonDecreasing ==
    ValidPolicy(policy) =>
        \A k \in 1..Len(nominal) : k > 1 => nominal[k - 1] <= nominal[k]

\* C23 (as claimed): lastRunTime is the instant the firing was accepted: once
\* the clock has fired a run, lastRunTime equals the instant of that firing
\* through the retries of the run and after its completion.
C23_LastRunIsFiringTime ==
    firedAt # NoDate => lastRunTime = firedAt

\* C24: in every state (each is a point where a firing, triggerNow() or
\* getStatus() can come in), isRunning, as the overlap check reads it and as
\* getStatus() reports it, is true exactly when an accepted run is in progress:
\* from its first attempt through its retries and the backoff sleeps between.
C24_RunningIffRunInProgress ==
    LET inProgress == \E p \in Procs : pc[p] \in {"task", "backoff"}
    IN  /\ isRunning <=> inProgress
        /\ overlapSkip(isRunning) <=> inProgress
        /\ getStatus(0).isRunning <=> inProgress

\* A run is asleep in the backoff after a failed attempt and isRunning is
\* true; an earlier run has ended and a call was skipped meanwhile.
C24_Witness ==
    /\ \E p \in Procs : pc[p] = "backoff" /\ attempts[p] >= 1
    /\ isRunning /\ getStatus(0).isRunning
    /\ lastOutcome.kind = "skipped"

\* a legacy cron expression is the schedule in effect: no time is given
LegacyInEffect ==
    /\ schedulingEnabled(config)
    /\ ~Truthy(scheduleTime(config.scheduling))
    /\ Truthy(legacySchedule(config.scheduling))

\* C25 (as claimed): the step that completes a run re-arms the trigger only if
\* jitter is enabled and a time-based schedule is in effect; with a legacy cron
\* expression in effect no step of a run changes the armed trigger or its
\* expression.
C25_RearmOnlyWithJitter ==
    [][\A p \in Procs :
           /\ (pc[p] # "idle" /\ pc'[p] = "idle" /\ Trigger' # Trigger)
                  => /\ jitterEnabled(jitterOf(config.scheduling))
                     /\ Truthy(scheduleTime(config.scheduling))
           /\ (LegacyInEffect /\ (TaskSucceed(p) \/ TaskFail(p) \/ BackoffDone(p)))
                  => Trigger' = Trigger]_vars

\* C26: a firing or a triggerNow() that arrives while a run is in progress is
\* skipped and changes nothing: isRunning, the position, attempt count, task
\* invocations and backoffs of the run in progress, lastRunTime, the armed
\* trigger, the live jobs and lastCronExpression all stay as they were.
C26_SkippedIsNoOp ==
    [][(~AllIdle /\ (TriggerNow \/ \E j \in JobIds : Fire(j)))
           => /\ lastOutcome'.kind = "skipped"
              /\ UNCHANGED <<isRunning, pc, attempts, calls, sleeps, backoffs,
                             lastRunTime, cronJob, live, jobExpr,
                             lastCronExpression>>]_vars

\* A call was skipped while a run of a started engine with a jittered daily
\* time was awaiting the task; the run had been accepted at an earlier instant.
C26_Witness ==
    /\ lastOutcome.kind = "skipped" /\ skippedCall = "scheduled"
    /\ \E p \in Procs : pc[p] = "task" /\ calls[p] = 1
    /\ isRunning /\ isActive /\ lastRunTime < now
    /\ Truthy(scheduleTime(config.scheduling))
    /\ jitterEnabled(jitterOf(config.scheduling))

\* C27: a rejection of the task callback is caught inside the run and counted
\* as one failed attempt: a run in progress has counted every invocation that
\* came back as one failure, and a run in which every attempt failed returns
\* to its caller, a firing or triggerNow(), as failed after as many failures as
\* invocations, one more than maxRestarts.
C27_TaskErrorCaught ==
    /\ \A p \in Procs :
           /\ pc[p] = "task" => attempts[p] = calls[p] - 1
           /\ pc[p] = "backoff" => attempts[p] = calls[p]
    /\ (lastOutcome.kind = "failed" /\ lastOutcome.calls >= 1)
           => /\ lastOutcome.fails = lastOutcome.calls
              /\ lastOutcome.fails = maxRetriesOf(config) + 1

\* triggerNow() on an engine that never held a trigger returned after the task
\* had rejected in each of its three attempts, and the engine is idle again.
C27_Witness ==
    /\ startReturned = "none" /\ LegacyInEffect /\ live = {}
    /\ lastOutcome.kind = "failed"
    /\ lastOutcome.calls = 3 /\ lastOutcome.fails = 3
    /\ AllIdle /\ ~isRunning

\* C28: stop() does not preempt a run in progress: a stop() called while a run
\* awaits the task or sleeps in a backoff leaves isRunning and the position,
\* attempt count, invocations and sleeps of the run unchanged, and after it the
\* run goes on as without it: a backoff is followed by the next attempt, and
\* the run ends only with a success or with maxRestarts + 1 failed attempts.
C28_StopDoesNotPreempt ==
    [][/\ (Stop /\ ~AllIdle)
              => UNCHANGED <<isRunning, pc, attempts, calls, sleeps, backoffs>>
       /\ \A p \in Procs :
              /\ (stopRequested = "running" /\ BackoffDone(p))
                     => /\ pc'[p] = "task" /\ isRunning'
                        /\ calls'[p] = calls[p] + 1
              /\ (stopRequested = "running" /\ pc[p] # "idle" /\ pc'[p] = "idle")
                     => \/ lastOutcome'.kind = "succeeded"
                        \/ /\ lastOutcome'.kind = "failed"
                           /\ lastOutcome'.calls = maxRetriesOf(config) + 1]_vars

\* A scheduled run whose trigger was stopped under it is in its third attempt:
\* with a legacy expression nothing re-arms, so no job is live and the stop()
\* came after this run was fired.
C28_Witness ==
    /\ stopRequested = "running" /\ LegacyInEffect /\ live = {} /\ ~isActive
    /\ isRunning
    /\ \E p \in Procs :
           /\ pc[p] = "task" /\ origin[p] = "scheduled"
           /\ calls[p] = 3 /\ attempts[p] = 2 /\ sleeps[p] = 2

\* C29 (as claimed): every expression buildSchedule returns, from a time, from a
\* legacy expression or from the default, names one firing a day: a literal
\* minute in 0..59, a literal hour in 0..23, every day.
C29_AlwaysDaily ==
    (ResolveCalled /\ resolved.cronExpr # Null) => DailyExpr(resolved.cronExpr)

\* C29 (amended): an expression built from a time or from the default names
\* one firing a day, with a literal minute in 0..59 and a literal hour in
\* 0..23, whatever the jitter window; a legacy expression is returned as
\* configured, so it names one firing a day exactly when the configured
\* expression does.
C29_DailyUnlessLegacy ==
    (ResolveCalled /\ resolved.cronExpr # Null) =>
        IF TimeGiven \/ ~Truthy(legacySchedule(resolveInput))
        THEN DailyExpr(resolved.cronExpr)
        ELSE DailyExpr(resolved.cronExpr) <=> DailyExpr(resolveInput.cron.schedule)

\* The default 09:00 was resolved with the jitter window 20/30 and the draw of
\* -20 minutes: the expression is that of 08:40.
C29_Witness ==
    /\ ResolveCalled /\ ~TimeGiven /\ ~Truthy(legacySchedule(resolveInput))
    /\ Has(resolveInput, "jitter") /\ resolveInput.jitter = Jitter2030
    /\ resolveDraw = -20
    /\ resolved.cronExpr = <<"4", "0", " ", "8", " ", "*", " ", "*", " ", "*">>

\* C30: the offset buildSchedule draws and reports lies in
\* [-minMinutesBefore, +maxMinutesAfter] for a window given by non-negative
\* numbers (20 and 30 where a bound is left out); a negative bound counts by its
\* magnitude; and the offset is 0 whenever jitter is not enabled or both bounds
\* are 0.
C30_OffsetWithinWindow ==
    ResolveCalled =>
        LET jitter == jitterOf(resolveInput)
            minMinutesBefore == jitterBefore(jitter)
            maxMinutesAfter == jitterAfter(jitter)
        IN  /\ (minMinutesBefore >= 0 /\ maxMinutesAfter >= 0)
                   => /\ resolved.jitterApplied >= 0 - minMinutesBefore
                      /\ resolved.jitterApplied <= maxMinutesAfter
                      /\ resolveDraw >= 0 - minMinutesBefore
                      /\ resolveDraw <= maxMinutesAfter
            /\ resolved.jitterApplied >= 0 - Abs(minMinutesBefore)
            /\ resolved.jitterApplied <= Abs(maxMinutesAfter)
            /\ (~jitterEnabled(jitter) \/ (minMinutesBefore = 0 /\ maxMinutesAfter = 0))
                   => resolved.jitterApplied = 0 /\ resolveDraw = 0

\* 09:00 was resolved with the window 20/30 and the largest offset it allows.
C30_Witness ==
    /\ ResolveCalled /\ TimeGiven /\ resolveInput.time = T0900
    /\ Has(resolveInput, "jitter") /\ resolveInput.jitter = Jitter2030
    /\ resolveDraw = 30 /\ resolved.jitterApplied = 30
    /\ ExprHour(resolved.cronExpr) = 9 /\ ExprMinute(resolved.cronExpr) = 30

\* the minute and hour fields of the armed job's expression are plain numbers
ArmedLiteral ==
    LET parts == split(jobExpr[cronJob], " ")
    IN  Len(parts) = 5 /\ IsDigits(parts[1]) /\ IsDigits(parts[2])

\* the first instant after t that falls on the minute m of the hour h
NextOccurrence(h, m, t) ==
    CHOOSE u \in (t + 1)..(t + MinutesInDay) :
        u % MinutesInDay = h * MinutesInHour + m

\* C31 (as claimed): while a trigger is armed, getStatus().nextRun is a concrete
\* time only if the minute and hour fields of the armed expression are plain
\* numbers (for a wildcard, a list or a step it is a sentinel), and for such an
\* expression it is the first occurrence of that time of day strictly after now.
C31_NextRunOnlyForLiterals ==
    (isActive /\ cronJob \in live) =>
        LET nextRun == getStatus(0).nextRun
        IN  /\ nextRun.kind = "time" => ArmedLiteral
            /\ ArmedLiteral =>
                   /\ nextRun.kind = "time"
                   /\ nextRun.at = toLocaleString(
                          NextOccurrence(ExprHour(jobExpr[cronJob]),
                                         ExprMinute(jobExpr[cronJob]), now))

\* C32: if every task invocation settles and every backoff sleep ends, every
\* accepted run ends: no run makes more than maxRestarts + 1 attempts or sleeps
\* more than maxRestarts times, each invocation in progress comes back to
\* idle, and whenever isRunning is true it becomes false again.
C32_RunTerminates ==
    /\ [](\A p \in Procs : pc[p] # "idle" =>
              /\ calls[p] <= maxRetriesOf(config) + 1
              /\ Len(backoffs[p]) <= maxRetriesOf(config))
    /\ \A p \in Procs : (pc[p] # "idle") ~> (pc[p] = "idle")
    /\ isRunning ~> ~isRunning

\* A run sleeps in its second backoff, with maxRestarts = 2, while the engine
\* has been stopped under it.
C32_Witness ==
    /\ maxRetriesOf(config) = 2 /\ isRunning
    /\ \E p \in Procs : pc[p] = "backoff" /\ calls[p] = 2 /\ Len(backoffs[p]) = 2

\* C33 (as claimed): the step in which the task callback resolves ends the run
\* as succeeded, also when the re-arm that follows throws: no failure is
\* counted, no backoff starts and the task is not invoked again in that run.
C33_NoRetryAfterSuccess ==
    [][\A p \in Procs :
           (TaskSucceed(p) \/ TaskSucceedThrows(p))
               => /\ pc'[p] = "idle"
                  /\ lastOutcome'.kind \in {"succeeded", "threw"}
                  /\ lastOutcome'.fails = attempts[p]]_vars

\* C34 (as claimed): while start() has not returned true, or has not been called
\* since the last stop(), isActive() is false: no run, a triggerNow() run and
\* its completion included, arms a trigger.
C34_InactiveUntilStarted ==
    (startReturned # "true" \/ stopRequested # "no") => ~isActive

\* C35: Retry.run stops at the first error for which isRetryable returns
\* false: once such an error is caught, run has thrown it, whatever number of
\* attempts remains, and fn has been invoked once per error caught, with one
\* sleep between two invocations and none after the last.
C35_StopsAtNonRetryable ==
    (isRetryableGiven /\ lastErr = "fatal") =>
        /\ rpc = "thrown"
        /\ fnCalls = attempt
        /\ Len(slept) = attempt - 1

\* Under the default policy of three attempts, the second invocation failed
\* with an error that is not retryable and run threw it after one sleep.
C35_Witness ==
    /\ isRetryableGiven /\ lastErr = "fatal" /\ rpc = "thrown"
    /\ policy.maxAttempts = 3 /\ attempt = 2 /\ fnCalls = 2 /\ Len(slept) = 1

\* C36: every run that was not skipped has invoked the task at least once when
\* it ends, whatever crashRecovery.maxRestarts is, and every call of Retry.run
\* has invoked its function at least once when it returns or throws, whatever
\* maxAttempts is.
C36_InvokedAtLeastOnce ==
    /\ lastOutcome.kind \in {"succeeded", "failed", "threw"} => lastOutcome.calls >= 1
    /\ rpc \in {"returned", "thrown"} => fnCalls >= 1

\* C37: whenever isActive() is true, lastCronExpression is the expression with
\* which the job the engine holds was created.
C37_ExpressionOfArmedJob ==
    isActive => lastCronExpression = jobExpr[cronJob]

\* The engine was started with a jittered time, a run has completed and
\* re-armed the trigger with the offset of one minute across midnight, and
\* lastCronExpression is the expression of the job the engine holds, the only
\* live one.
C37_Witness ==
    /\ isActive /\ startReturned = "true" /\ lastOutcome.kind = "succeeded"
    /\ config.scheduling = [enabled |-> TRUE, time |-> T2359, jitter |-> JitterOn]
    /\ live = {cronJob}
    /\ jobExpr[cronJob] = buildSchedule(config.scheduling, 1).cronExpr
    /\ lastCronExpression = jobExpr[cronJob]

\* Scheduling is enabled with neither a time nor a legacy expression, so the
\* default of 09:00 is in effect, and jitter is enabled.
DefaultJittered ==
    /\ schedulingEnabled(config)
    /\ ~Truthy(scheduleTime(config.scheduling))
    /\ ~Truthy(legacySchedule(config.scheduling))
    /\ jitterEnabled(jitterOf(config.scheduling))

\* C38: with the default 09:00 in effect and jitter enabled, no firing, no
\* triggerNow() and no step of a run, its completion included, changes the
\* armed trigger or its expression: what start() armed stays armed.
C38_DefaultOffsetKept ==
    [][(/\ DefaultJittered
        /\ \/ TriggerNow
           \/ \E j \in JobIds : Fire(j)
           \/ \E p \in Procs : TaskSucceed(p) \/ TaskFail(p) \/ BackoffDone(p))
          => Trigger' = Trigger]_vars

\* The default 09:00 with jitter was armed by start() one minute late, as
\* "1 9 * * *", and a run has since succeeded with that job still the armed one.
C38_Witness ==
    /\ DefaultJittered /\ startReturned = "true" /\ lastOutcome.kind = "succeeded"
    /\ isActive /\ live = {cronJob}
    /\ jobExpr[cronJob] = dailyCron(1, DefaultHour)
    /\ lastCronExpression = jobExpr[cronJob]

\* The budget the tracker is to work with for the constructor argument x: 0 for
\* a value that is not finite or is negative, and x rounded down otherwise.
BudgetOf(x) == IF x.kind # "finite" \/ x.num < 0 THEN 0 ELSE x.num \div x.den

\* C39: for a tracker of budget m, the n-th call of registerFailure() returned
\* true exactly when n <= m, and hasExceeded() is true exactly when more than m
\* failures have been registered, which is exactly when there was a call of
\* registerFailure() and the last one returned false.
C39_TrackerBudget ==
    LET m == BudgetOf(trackerArg)
        n == Len(registerReturned)
    IN  /\ \A k \in 1..n : registerReturned[k] = (k <= m)
        /\ getAttemptCount = n
        /\ hasExceeded = (n > m)
        /\ hasExceeded = (n > 0 /\ ~registerReturned[n])

\* A tracker constructed with 2.5 has let two failures through and refused the
\* third and the fourth.
C39_Witness ==
    /\ trackerArg = Number("finite", 5, 2)
    /\ registerReturned = <<TRUE, TRUE, FALSE, FALSE>>
    /\ hasExceeded

====
